---- MODULE Spec2Model ----
(***************************************************************************)
(* SettingManager (src/mercury_net_diag/settingManager.cpp): the SPIFFS     *)
(* backed configuration record of the device, its JSON-like codec          *)
(* (toJson / fromJson) and its lifecycle (begin, loadSettings,              *)
(* saveSettings, resetToDefaults, setters, endpoint operations).           *)
(*                                                                         *)
(* An Arduino String is modelled as a sequence of one-character strings;   *)
(* positions are 0-based as in the source (charAt, indexOf, substring).    *)
(***************************************************************************)
EXTENDS Integers, Sequences, FiniteSets, TLC

\* ------------------------------------------------------------------ bounds

\* Number of operations performed on the manager after construction.
MaxSteps == 2

\* Longest string the codec round trip draws over the alphabet.
MaxLen == 2

\* ------------------------------------------------------- program constants

MAX_ENDPOINTS == 5

DEFAULT_INTERVAL == 600000

\* `long` is 32 bits wide on the target; atol saturates at the limits.  The
\* model keeps checkInterval within 0..LONG_MAX (TLC's integers are 32 bits wide).
LONG_MAX == 2147483647

LONG_MIN == -LONG_MAX - 1

\* ------------------------------------------------------------- characters

QUOTE == "\""
BSLASH == "\\"
NL == "\n"
CR == "\r"
TAB == "\t"

Digits == <<"0", "1", "2", "3", "4", "5", "6", "7", "8", "9">>

isdigit(c) == \E d \in 1..10 : Digits[d] = c

DigitValue(c) == (CHOOSE d \in 1..10 : Digits[d] = c) - 1

\* ------------------------------------------------------ String operations

\* String::charAt(i), 0-based.
charAt(s, i) == s[i + 1]

\* String::substring(left, right): the characters at positions left..right-1.
substring(s, left, right) == SubSeq(s, left + 1, right)

\* Least element of a non-empty set of positions.
Least(S) == CHOOSE i \in S : \A j \in S : i <= j

\* String::indexOf(pat, from): first position >= from where pat occurs, or -1.
indexOf(s, pat, from) ==
  LET hits == { i \in from..(Len(s) - Len(pat)) :
                  s[i + 1] = pat[1] /\ SubSeq(s, i + 1, i + Len(pat)) = pat }
  IN IF hits = {} THEN -1 ELSE Least(hits)

\* String::replace(find, repl): the occurrence found from the read position is
\* replaced and the search resumes right after it, until none is left.
RECURSIVE replace(_, _, _)
replace(s, find, repl) ==
  LET foundAt == indexOf(s, find, 0)
  IN IF foundAt < 0 THEN s
     ELSE SubSeq(s, 1, foundAt) \o repl
          \o replace(SubSeq(s, foundAt + Len(find) + 1, Len(s)), find, repl)

\* The digit run of atol's argument from position i: its value, or -1 once the
\* value no longer fits a long.
RECURSIVE atolDigits(_, _, _)
atolDigits(s, i, acc) ==
  IF i <= Len(s) /\ isdigit(s[i])
  THEN LET d == DigitValue(s[i])
       IN IF acc > (LONG_MAX - d) \div 10 THEN -1
          ELSE atolDigits(s, i + 1, acc * 10 + d)
  ELSE acc

\* String::toInt() is atol(buffer): an optional sign, then digits up to the first
\* other character; no digits give 0; out-of-range values saturate.
toInt(s) ==
  IF Len(s) > 0 /\ s[1] = "-"
  THEN LET v == atolDigits(s, 2, 0) IN IF v < 0 THEN LONG_MIN ELSE -v
  ELSE LET v == atolDigits(s, 1, 0) IN IF v < 0 THEN LONG_MAX ELSE v

\* String(unsigned long): the decimal digits of n.
RECURSIVE StringOf(_)
StringOf(n) ==
  IF n < 10 THEN <<Digits[n + 1]>>
  ELSE StringOf(n \div 10) \o <<Digits[(n % 10) + 1]>>

\* ------------------------------------------------------------ key literals

K_locationName == <<"l","o","c","a","t","i","o","n","N","a","m","e">>
K_networkName == <<"n","e","t","w","o","r","k","N","a","m","e">>
K_mainSSID == <<"m","a","i","n","S","S","I","D">>
K_mainPass == <<"m","a","i","n","P","a","s","s">>
K_altSSID == <<"a","l","t","S","S","I","D">>
K_altPass == <<"a","l","t","P","a","s","s">>
K_devSSID == <<"d","e","v","S","S","I","D">>
K_devPass == <<"d","e","v","P","a","s","s">>
K_checkInterval == <<"c","h","e","c","k","I","n","t","e","r","v","a","l">>
K_endpoints == <<"e","n","d","p","o","i","n","t","s">>

\* "\"endpoints\":["
EndpointsKey == <<QUOTE>> \o K_endpoints \o <<QUOTE, ":", "[">>

\* --------------------------------------------------------------- defaults

\* The record setDefaults() builds.
Defaults ==
  [ locationName  |-> <<"u","n","s","e","t">>,
    networkName   |-> <<>>,
    mainSSID      |-> <<"c","l","u","s","t","e","r","1">>,
    mainPass      |-> <<"I","S","M","S","1","2","3","4","5","@">>,
    altSSID       |-> <<"t","o","m","i","k","a","w","a","-","w","i","f","i">>,
    altPass       |-> <<"t","o","m","i","k","a","w","a","1","5","3","8","5","5">>,
    devSSID       |-> <<"f","g","o","p">>,
    devPass       |-> <<"t","e","t","r","a","d","1","2","3","4","5","@","@","@">>,
    checkInterval |-> DEFAULT_INTERVAL,
    endpoints     |-> <<>> ]

\* ------------------------------------------------------------------ codec

\* Concatenation of the pieces p[lo..hi], in order.
RECURSIVE Flatten(_, _, _)
Flatten(p, lo, hi) ==
  IF lo > hi THEN <<>>
  ELSE IF lo = hi THEN p[lo]
  ELSE LET mid == (lo + hi) \div 2
       IN Flatten(p, lo, mid) \o Flatten(p, mid + 1, hi)

\* The switch of escapeJson: what one character contributes to the output.
escapeChar(c) ==
  CASE c = BSLASH -> <<BSLASH, BSLASH>>
    [] c = QUOTE  -> <<BSLASH, QUOTE>>
    [] c = NL     -> <<BSLASH, "n">>
    [] c = CR     -> <<BSLASH, "r">>
    [] c = TAB    -> <<BSLASH, "t">>
    [] OTHER      -> <<c>>

\* escapeJson: backslash, quote, newline, carriage return and tab get a backslash
\* escape; every other character is copied.
escapeJson(str) ==
  Flatten([i \in 1..Len(str) |-> escapeChar(str[i])], 1, Len(str))

\* "\"key\":\"" + escapeJson(value) + "\","
StringMember(key, value) ==
  <<QUOTE>> \o key \o <<QUOTE, ":", QUOTE>> \o escapeJson(value) \o <<QUOTE, ",">>

\* The loop of toJson over settings.endpoints.
RECURSIVE EndpointItems(_, _)
EndpointItems(eps, i) ==
  IF i > Len(eps) THEN <<>>
  ELSE (IF i > 1 THEN <<",">> ELSE <<>>)
       \o <<QUOTE>> \o escapeJson(eps[i]) \o <<QUOTE>>
       \o EndpointItems(eps, i + 1)

toJson(s) ==
  <<"{">>
  \o StringMember(K_locationName, s.locationName)
  \o StringMember(K_networkName, s.networkName)
  \o StringMember(K_mainSSID, s.mainSSID)
  \o StringMember(K_mainPass, s.mainPass)
  \o StringMember(K_altSSID, s.altSSID)
  \o StringMember(K_altPass, s.altPass)
  \o StringMember(K_devSSID, s.devSSID)
  \o StringMember(K_devPass, s.devPass)
  \o <<QUOTE>> \o K_checkInterval \o <<QUOTE, ":">> \o StringOf(s.checkInterval) \o <<",">>
  \o EndpointsKey
  \o EndpointItems(s.endpoints, 1)
  \o <<"]", "}">>

\* The while loops of extractString and of the endpoint scan: advance `end` to the
\* first quote not preceded by a backslash, or to the end of the text.
scanToQuote(json, end) ==
  LET stops == { e \in end..(Len(json) - 1) :
                   charAt(json, e) = QUOTE /\ charAt(json, e - 1) # BSLASH }
  IN IF stops = {} THEN (IF end < Len(json) THEN Len(json) ELSE end)
     ELSE Least(stops)

\* The five replace calls of extractString, in the source's order.
unescapeValue(raw) ==
  LET v1 == replace(raw, <<BSLASH, QUOTE>>, <<QUOTE>>)
      v2 == replace(v1, <<BSLASH, BSLASH>>, <<BSLASH>>)
      v3 == replace(v2, <<BSLASH, "n">>, <<NL>>)
      v4 == replace(v3, <<BSLASH, "r">>, <<CR>>)
      v5 == replace(v4, <<BSLASH, "t">>, <<TAB>>)
  IN v5

extractString(json, key) ==
  LET searchKey == <<QUOTE>> \o key \o <<QUOTE, ":", QUOTE>>
      found == indexOf(json, searchKey, 0)
      start == found + Len(searchKey)
      end == scanToQuote(json, start)
  IN IF found < 0 THEN <<>>
     ELSE unescapeValue(substring(json, start, end))

\* The while loop of extractNumber: advance `end` over digits and minus signs.
scanNumber(json, end) ==
  LET stops == { e \in end..(Len(json) - 1) :
                   ~(isdigit(charAt(json, e)) \/ charAt(json, e) = "-") }
  IN IF stops = {} THEN (IF end < Len(json) THEN Len(json) ELSE end)
     ELSE Least(stops)

extractNumber(json, key) ==
  LET searchKey == <<QUOTE>> \o key \o <<QUOTE, ":">>
      found == indexOf(json, searchKey, 0)
      start == found + Len(searchKey)
      end == scanNumber(json, start)
  IN IF found < 0 THEN -1
     ELSE toInt(substring(json, start, end))

\* The two replace calls applied to an endpoint element.
unescapeEndpoint(raw) ==
  replace(replace(raw, <<BSLASH, QUOTE>>, <<QUOTE>>), <<BSLASH, BSLASH>>, <<BSLASH>>)

\* The push_back of the endpoint loop without the MAX_ENDPOINTS test.
pushEndpoint_unbounded(eps, ep) ==
  IF Len(ep) > 0 THEN Append(eps, ep) ELSE eps

\* The guarded push_back of the endpoint loop: a non-empty element is appended
\* while the list is below MAX_ENDPOINTS.
pushEndpoint(eps, ep) ==
  IF Len(ep) > 0 /\ Len(eps) < MAX_ENDPOINTS THEN Append(eps, ep) ELSE eps

\* The endpoint loop of fromJson over epArray, from position pos, appending to eps.
RECURSIVE scanEndpoints(_, _, _)
scanEndpoints(epArray, pos, eps) ==
  IF pos >= Len(epArray) THEN eps
  ELSE LET qStart == indexOf(epArray, <<QUOTE>>, pos)
           qEnd == scanToQuote(epArray, qStart + 1)
           ep == unescapeEndpoint(substring(epArray, qStart + 1, qEnd))
           eps1 == IF qEnd > qStart + 1 THEN pushEndpoint(eps, ep) ELSE eps
       IN IF qStart < 0 THEN eps
          ELSE scanEndpoints(epArray, qEnd + 1, eps1)

parseEndpoints(json) ==
  LET found == indexOf(json, EndpointsKey, 0)
      epStart == found + 13
      epEnd == indexOf(json, <<"]">>, epStart)
  IN IF found >= 0 /\ epEnd > epStart
     THEN scanEndpoints(substring(json, epStart, epEnd), 0, <<>>)
     ELSE <<>>

\* fromJson without the "unset" fallback of locationName.
fromJson_noUnset(json) ==
  LET interval == extractNumber(json, K_checkInterval)
  IN [ locationName  |-> extractString(json, K_locationName),
       networkName   |-> extractString(json, K_networkName),
       mainSSID      |-> extractString(json, K_mainSSID),
       mainPass      |-> extractString(json, K_mainPass),
       altSSID       |-> extractString(json, K_altSSID),
       altPass       |-> extractString(json, K_altPass),
       devSSID       |-> extractString(json, K_devSSID),
       devPass       |-> extractString(json, K_devPass),
       checkInterval |-> IF interval > 0 THEN interval ELSE DEFAULT_INTERVAL,
       endpoints     |-> parseEndpoints(json) ]

\* fromJson without the 600000 fallback of checkInterval.
fromJson_zeroInterval(json) ==
  LET name == extractString(json, K_locationName)
      interval == extractNumber(json, K_checkInterval)
  IN [ locationName  |-> IF name = <<>> THEN <<"u","n","s","e","t">> ELSE name,
       networkName   |-> extractString(json, K_networkName),
       mainSSID      |-> extractString(json, K_mainSSID),
       mainPass      |-> extractString(json, K_mainPass),
       altSSID       |-> extractString(json, K_altSSID),
       altPass       |-> extractString(json, K_altPass),
       devSSID       |-> extractString(json, K_devSSID),
       devPass       |-> extractString(json, K_devPass),
       checkInterval |-> IF interval > 0 THEN interval ELSE 0,
       endpoints     |-> parseEndpoints(json) ]

\* fromJson assigns every field of settings, so its result is a function of the text.
fromJson(json) ==
  LET name == extractString(json, K_locationName)
      interval == extractNumber(json, K_checkInterval)
  IN [ locationName  |-> IF name = <<>> THEN <<"u","n","s","e","t">> ELSE name,
       networkName   |-> extractString(json, K_networkName),
       mainSSID      |-> extractString(json, K_mainSSID),
       mainPass      |-> extractString(json, K_mainPass),
       altSSID       |-> extractString(json, K_altSSID),
       altPass       |-> extractString(json, K_altPass),
       devSSID       |-> extractString(json, K_devSSID),
       devPass       |-> extractString(json, K_devPass),
       checkInterval |-> IF interval > 0 THEN interval ELSE DEFAULT_INTERVAL,
       endpoints     |-> parseEndpoints(json) ]

\* ---------------------------------------------------------------- backend

\* The byte store as the manager sees it: whether CONFIG_FILE exists, and its text.
NoFile == [exists |-> FALSE, content |-> <<>>]

FileWith(text) == [exists |-> TRUE, content |-> text]

\* SPIFFS.begin(true): the mount succeeds, or fails and the store is formatted and
\* mounted (the file is gone), or fails for good.
Mounts == {"ok", "formatted", "fail"}

\* What the backend calls of one operation returned: "none" when not called.
NoIo == [mount |-> "none", firstBoot |-> FALSE, wr |-> "none", rd |-> "none"]

Outcome(ok) == IF ok THEN "ok" ELSE "fail"

\* -------------------------------------------------------------- operations

isFirstBoot(f) == ~f.exists

\* saveSettings with the file.print(json) forgotten: the file is truncated and
\* left empty.
saveSettings_noPrint(s, f, wr) ==
  IF ~wr THEN [fs |-> f, ret |-> FALSE]
  ELSE [fs |-> FileWith(<<>>), ret |-> TRUE]

\* saveSettings on record s and store f; wr: SPIFFS.open(CONFIG_FILE, "w") succeeds.
saveSettings(s, f, wr) ==
  IF ~wr THEN [fs |-> f, ret |-> FALSE]
  ELSE [fs |-> FileWith(toJson(s)), ret |-> TRUE]

\* loadSettings that reads the file and reports success without decoding it.
loadSettings_keepsRecord(s, f, rd) ==
  IF ~(f.exists /\ rd) THEN [settings |-> s, ret |-> FALSE]
  ELSE [settings |-> s, ret |-> TRUE]

\* loadSettings on record s and store f; rd: the backend lets an existing file be
\* opened for reading (a missing file never opens).
loadSettings(s, f, rd) ==
  IF ~(f.exists /\ rd) THEN [settings |-> s, ret |-> FALSE]
  ELSE [settings |-> fromJson(f.content), ret |-> TRUE]

\* begin that goes on to the load step after a failed bootstrap save.
begin_proceeds(s, ini, f, mount, wr, rd) ==
  IF mount = "fail"
  THEN [settings |-> s, initialized |-> ini, fs |-> f, ret |-> FALSE,
        io |-> [NoIo EXCEPT !.mount = "fail"]]
  ELSE
    LET f1 == IF mount = "formatted" THEN NoFile ELSE f
        first == isFirstBoot(f1)
        s1 == IF first THEN Defaults ELSE s
        saved == IF first THEN saveSettings(s1, f1, wr) ELSE [fs |-> f1, ret |-> TRUE]
        loaded == loadSettings(s1, saved.fs, rd)
    IN [settings |-> IF loaded.ret THEN loaded.settings ELSE Defaults,
        initialized |-> TRUE, fs |-> saved.fs, ret |-> TRUE,
        io |-> [mount |-> mount, firstBoot |-> first,
                wr |-> IF first THEN Outcome(wr) ELSE "none",
                rd |-> Outcome(loaded.ret)]]

\* begin with the setDefaults() after a failed load forgotten.
begin_noFallback(s, ini, f, mount, wr, rd) ==
  IF mount = "fail"
  THEN [settings |-> s, initialized |-> ini, fs |-> f, ret |-> FALSE,
        io |-> [NoIo EXCEPT !.mount = "fail"]]
  ELSE
    LET f1 == IF mount = "formatted" THEN NoFile ELSE f
        first == isFirstBoot(f1)
        s1 == IF first THEN Defaults ELSE s
        saved == IF first THEN saveSettings(s1, f1, wr) ELSE [fs |-> f1, ret |-> TRUE]
        loaded == loadSettings(s1, saved.fs, rd)
        io1 == [mount |-> mount, firstBoot |-> first,
                wr |-> IF first THEN Outcome(wr) ELSE "none", rd |-> "none"]
    IN IF ~saved.ret
       THEN [settings |-> s1, initialized |-> ini, fs |-> saved.fs, ret |-> FALSE,
             io |-> io1]
       ELSE [settings |-> loaded.settings,
             initialized |-> TRUE, fs |-> saved.fs, ret |-> TRUE,
             io |-> [io1 EXCEPT !.rd = Outcome(loaded.ret)]]

\* begin that gives up when the load fails instead of falling back to defaults.
begin_abortsOnLoadFailure(s, ini, f, mount, wr, rd) ==
  IF mount = "fail"
  THEN [settings |-> s, initialized |-> ini, fs |-> f, ret |-> FALSE,
        io |-> [NoIo EXCEPT !.mount = "fail"]]
  ELSE
    LET f1 == IF mount = "formatted" THEN NoFile ELSE f
        first == isFirstBoot(f1)
        s1 == IF first THEN Defaults ELSE s
        saved == IF first THEN saveSettings(s1, f1, wr) ELSE [fs |-> f1, ret |-> TRUE]
        loaded == loadSettings(s1, saved.fs, rd)
        io1 == [mount |-> mount, firstBoot |-> first,
                wr |-> IF first THEN Outcome(wr) ELSE "none", rd |-> "none"]
    IN IF ~saved.ret
       THEN [settings |-> s1, initialized |-> ini, fs |-> saved.fs, ret |-> FALSE,
             io |-> io1]
       ELSE IF ~loaded.ret
       THEN [settings |-> s1, initialized |-> ini, fs |-> saved.fs, ret |-> FALSE,
             io |-> [io1 EXCEPT !.rd = "fail"]]
       ELSE [settings |-> loaded.settings,
             initialized |-> TRUE, fs |-> saved.fs, ret |-> TRUE,
             io |-> [io1 EXCEPT !.rd = "ok"]]

\* begin on record s, flag ini and store f, with the backend's answers.
begin(s, ini, f, mount, wr, rd) ==
  IF mount = "fail"
  THEN [settings |-> s, initialized |-> ini, fs |-> f, ret |-> FALSE,
        io |-> [NoIo EXCEPT !.mount = "fail"]]
  ELSE
    LET f1 == IF mount = "formatted" THEN NoFile ELSE f
        first == isFirstBoot(f1)
        s1 == IF first THEN Defaults ELSE s
        saved == IF first THEN saveSettings(s1, f1, wr) ELSE [fs |-> f1, ret |-> TRUE]
        loaded == loadSettings(s1, saved.fs, rd)
        io1 == [mount |-> mount, firstBoot |-> first,
                wr |-> IF first THEN Outcome(wr) ELSE "none", rd |-> "none"]
    IN IF ~saved.ret
       THEN [settings |-> s1, initialized |-> ini, fs |-> saved.fs, ret |-> FALSE,
             io |-> io1]
       ELSE [settings |-> IF loaded.ret THEN loaded.settings ELSE Defaults,
             initialized |-> TRUE, fs |-> saved.fs, ret |-> TRUE,
             io |-> [io1 EXCEPT !.rd = Outcome(loaded.ret)]]

\* addEndpoint(url) on the endpoint list eps.
addEndpoint(eps, url) ==
  IF Len(eps) >= MAX_ENDPOINTS THEN [endpoints |-> eps, ret |-> FALSE]
  ELSE [endpoints |-> Append(eps, url), ret |-> TRUE]

\* removeEndpoint whose range check lets index == size() through.
removeEndpoint_offByOne(eps, index) ==
  IF index < 0 \/ index > Len(eps) THEN [endpoints |-> eps, ret |-> FALSE]
  ELSE [endpoints |-> SubSeq(eps, 1, index) \o SubSeq(eps, index + 2, Len(eps)),
        ret |-> TRUE]

\* removeEndpoint(index) on the endpoint list eps: erase(begin() + index).
removeEndpoint(eps, index) ==
  IF index < 0 \/ index >= Len(eps) THEN [endpoints |-> eps, ret |-> FALSE]
  ELSE [endpoints |-> SubSeq(eps, 1, index) \o SubSeq(eps, index + 2, Len(eps)),
        ret |-> TRUE]

\* ------------------------------------------------------------------ inputs

TextFields ==
  {"locationName", "networkName", "mainSSID", "mainPass",
   "altSSID", "altPass", "devSSID", "devPass"}

\* Values handed to the text setters.
SetterTexts == {<<>>, <<"a", QUOTE>>}

\* Values handed to setCheckInterval.
Intervals == {0, 1000}

\* Values handed to addEndpoint.
Urls == {<<"u">>, <<"v", "]">>}

\* Indices handed to removeEndpoint.
Indices == -1..MAX_ENDPOINTS

\* Endpoint e1..en.
Numbered(n) == [i \in 1..n |-> <<"e", Digits[i + 1]>>]

\* A record as saveSettings wrote it in an earlier power cycle.
LabRecord ==
  [Defaults EXCEPT !.locationName = <<"l", "a", "b">>,
                   !.mainPass = <<"p", QUOTE, "w">>,
                   !.checkInterval = 1000,
                   !.endpoints = Numbered(2)]

\* Seven endpoints, e1..e7, and the blob listing them.
SevenList == Numbered(MAX_ENDPOINTS + 2)

SevenBlob == toJson([Defaults EXCEPT !.endpoints = SevenList])

\* Seven endpoints whose first holds a closing bracket, and the blob listing them.
BracketList == [SevenList EXCEPT ![1] = <<"e", "]", "1">>]

BracketBlob == toJson([Defaults EXCEPT !.endpoints = BracketList])

\* Text that is no JSON at all.
Garbage == <<"n", "o", "t", " ", "j", "s", "o", "n">>

\* Keys in another casing and with a space after the colon: no key literal matches.
WrongKeys ==
  <<"{", QUOTE>> \o <<"L">> \o Tail(K_locationName) \o <<QUOTE, ":", QUOTE, "x", QUOTE, ",">>
  \o <<QUOTE>> \o K_mainSSID \o <<QUOTE, ":", " ", QUOTE, "y", QUOTE, ",">>
  \o <<QUOTE>> \o K_checkInterval \o <<QUOTE, " ", ":", "5", "}">>

\* Texts handed to fromJson.
JsonTexts ==
  {<<>>, Garbage, WrongKeys, toJson(Defaults), toJson(LabRecord), SevenBlob, BracketBlob}

\* Texts found in the config file at power-up: written by an earlier saveSettings,
\* cut down to nothing, or foreign.
BootTexts == {<<>>, Garbage, toJson(LabRecord), SevenBlob}

\* ------------------------------------------------------------------- state

VARIABLES
  settings,     \* DeviceSettings settings
  initialized,  \* bool initialized
  fs,           \* the backend: CONFIG_FILE's existence and content
  op,           \* the operation performed last
  arg,          \* its argument
  ret,          \* its return value (TRUE for a void operation)
  out,          \* the String it returned (toJson), else empty
  io,           \* what its backend calls returned
  old,          \* settings, initialized and fs as they were before it
  steps         \* operations performed so far

vars == <<settings, initialized, fs, op, arg, ret, out, io, old, steps>>

Snapshot == [settings |-> settings, initialized |-> initialized, fs |-> fs]

NoArg == [text |-> <<>>, num |-> 0]

TextArg(t) == [text |-> t, num |-> 0]

NumArg(n) == [text |-> <<>>, num |-> n]

\* After construction: the record holds the defaults, the flag is false; the store
\* holds no config file, or one left by an earlier power cycle.
Init ==
  /\ settings = Defaults
  /\ initialized = FALSE
  /\ fs \in {NoFile} \cup {FileWith(t) : t \in BootTexts}
  /\ op = "construct"
  /\ arg = NoArg
  /\ ret = TRUE
  /\ out = <<>>
  /\ io = NoIo
  /\ old = Snapshot
  /\ steps = 0

\* The bookkeeping every operation shares.
Called(name, a) ==
  /\ op' = name
  /\ arg' = a
  /\ old' = Snapshot

\* An operation that returns no String.
Step(name, a) ==
  /\ steps < MaxSteps
  /\ steps' = steps + 1
  /\ Called(name, a)
  /\ out' = <<>>

Begin ==
  \E mount \in Mounts, wr \in BOOLEAN, rd \in BOOLEAN :
    LET r == begin(settings, initialized, fs, mount, wr, rd)
    IN /\ Step("begin", NoArg)
       /\ settings' = r.settings
       /\ initialized' = r.initialized
       /\ fs' = r.fs
       /\ ret' = r.ret
       /\ io' = r.io

LoadSettings ==
  \E rd \in BOOLEAN :
    LET r == loadSettings(settings, fs, rd)
    IN /\ Step("loadSettings", NoArg)
       /\ settings' = r.settings
       /\ ret' = r.ret
       /\ io' = [NoIo EXCEPT !.rd = Outcome(r.ret)]
       /\ UNCHANGED <<initialized, fs>>

SaveSettings ==
  \E wr \in BOOLEAN :
    LET r == saveSettings(settings, fs, wr)
    IN /\ Step("saveSettings", NoArg)
       /\ fs' = r.fs
       /\ ret' = r.ret
       /\ io' = [NoIo EXCEPT !.wr = Outcome(wr)]
       /\ UNCHANGED <<settings, initialized>>

\* resetToDefaults: setDefaults, then saveSettings with its result dropped.
ResetToDefaults ==
  \E wr \in BOOLEAN :
    LET r == saveSettings(Defaults, fs, wr)
    IN /\ Step("resetToDefaults", NoArg)
       /\ settings' = Defaults
       /\ fs' = r.fs
       /\ ret' = TRUE
       /\ io' = [NoIo EXCEPT !.wr = Outcome(wr)]
       /\ UNCHANGED initialized

\* A text setter that also writes the record to the config file.
SetText_persists(name, field, value) ==
  /\ Step(name, TextArg(value))
  /\ settings' = [settings EXCEPT ![field] = value]
  /\ fs' = FileWith(toJson(settings'))
  /\ ret' = TRUE
  /\ io' = NoIo
  /\ UNCHANGED initialized

\* A text setter: one field is assigned, nothing else happens.
SetText(name, field, value) ==
  /\ Step(name, TextArg(value))
  /\ settings' = [settings EXCEPT ![field] = value]
  /\ ret' = TRUE
  /\ io' = NoIo
  /\ UNCHANGED <<initialized, fs>>

SetLocationName == \E v \in SetterTexts : SetText("setLocationName", "locationName", v)

SetNetworkName == \E v \in SetterTexts : SetText("setNetworkName", "networkName", v)

SetMainSSID == \E v \in SetterTexts : SetText("setMainSSID", "mainSSID", v)

SetMainPass == \E v \in SetterTexts : SetText("setMainPass", "mainPass", v)

SetAltSSID == \E v \in SetterTexts : SetText("setAltSSID", "altSSID", v)

SetAltPass == \E v \in SetterTexts : SetText("setAltPass", "altPass", v)

SetDevSSID == \E v \in SetterTexts : SetText("setDevSSID", "devSSID", v)

SetDevPass == \E v \in SetterTexts : SetText("setDevPass", "devPass", v)

SetCheckInterval ==
  \E v \in Intervals :
    /\ Step("setCheckInterval", NumArg(v))
    /\ settings' = [settings EXCEPT !.checkInterval = v]
    /\ ret' = TRUE
    /\ io' = NoIo
    /\ UNCHANGED <<initialized, fs>>

AddEndpoint ==
  \E url \in Urls :
    LET r == addEndpoint(settings.endpoints, url)
    IN /\ Step("addEndpoint", TextArg(url))
       /\ settings' = [settings EXCEPT !.endpoints = r.endpoints]
       /\ ret' = r.ret
       /\ io' = NoIo
       /\ UNCHANGED <<initialized, fs>>

RemoveEndpoint ==
  \E index \in Indices :
    LET r == removeEndpoint(settings.endpoints, index)
    IN /\ Step("removeEndpoint", NumArg(index))
       /\ settings' = [settings EXCEPT !.endpoints = r.endpoints]
       /\ ret' = r.ret
       /\ io' = NoIo
       /\ UNCHANGED <<initialized, fs>>

ClearEndpoints ==
  /\ Step("clearEndpoints", NoArg)
  /\ settings' = [settings EXCEPT !.endpoints = <<>>]
  /\ ret' = TRUE
  /\ io' = NoIo
  /\ UNCHANGED <<initialized, fs>>

FromJson ==
  \E json \in JsonTexts :
    /\ Step("fromJson", TextArg(json))
    /\ settings' = fromJson(json)
    /\ ret' = TRUE
    /\ io' = NoIo
    /\ UNCHANGED <<initialized, fs>>

\* toJson() const: the text is returned, no member changes.
ToJson ==
  /\ steps < MaxSteps
  /\ steps' = steps + 1
  /\ Called("toJson", NoArg)
  /\ out' = toJson(settings)
  /\ ret' = TRUE
  /\ io' = NoIo
  /\ UNCHANGED <<settings, initialized, fs>>

Next ==
  \/ Begin
  \/ LoadSettings
  \/ SaveSettings
  \/ ResetToDefaults
  \/ SetLocationName
  \/ SetNetworkName
  \/ SetMainSSID
  \/ SetMainPass
  \/ SetAltSSID
  \/ SetAltPass
  \/ SetDevSSID
  \/ SetDevPass
  \/ SetCheckInterval
  \/ AddEndpoint
  \/ RemoveEndpoint
  \/ ClearEndpoints
  \/ FromJson
  \/ ToJson

Spec == Init /\ [][Next]_vars

\* ------------------------------------------------------- the codec alone

\* The characters the codec is exercised on: the five escapable ones, two letters
\* and a closing bracket.
Alphabet == {QUOTE, BSLASH, NL, CR, TAB, "a", "n", "]"}

\* Every string over the alphabet of length at most MaxLen.
Strings == UNION {[1..n -> Alphabet] : n \in 0..MaxLen}

\* Records a caller can build with the setters and addEndpoint: the defaults with
\* one text field replaced, or with 1..MAX_ENDPOINTS copies of one endpoint.
CodecRecords ==
  {[Defaults EXCEPT ![f] = v] : f \in TextFields, v \in Strings}
  \cup {[Defaults EXCEPT !.endpoints = [i \in 1..n |-> v]] :
          n \in 1..MAX_ENDPOINTS, v \in Strings}

InitCodec ==
  /\ settings \in CodecRecords
  /\ initialized = FALSE
  /\ fs = NoFile
  /\ op = "record"
  /\ arg = NoArg
  /\ ret = TRUE
  /\ out = <<>>
  /\ io = NoIo
  /\ old = Snapshot
  /\ steps = 0

\* Encode-then-decode rounds performed on one record.
MaxRounds == 2

\* toJson() of the record in memory: the record drawn, or the one the previous
\* round decoded. steps counts the rounds begun.
Encode ==
  /\ op \in {"record", "fromJson"}
  /\ steps < MaxRounds
  /\ steps' = steps + 1
  /\ Called("toJson", NoArg)
  /\ out' = toJson(settings)
  /\ ret' = TRUE
  /\ UNCHANGED <<settings, initialized, fs, io>>

\* fromJson of the text toJson returned.
Decode ==
  /\ op = "toJson"
  /\ Called("fromJson", TextArg(out))
  /\ settings' = fromJson(out)
  /\ ret' = TRUE
  /\ UNCHANGED <<initialized, fs, out, io, steps>>

NextCodec ==
  \/ Encode
  \/ Decode

SpecCodec == InitCodec /\ [][NextCodec]_vars

\* ----------------------------------------------------- the decoder alone

\* Longest number text enumerated after the "checkInterval": literal.
MaxDigits == 3

\* Characters of the enumerated number texts: two digits, the sign, and a
\* character that stops extractNumber's scan.
NumberChars == {"0", "7", "-", "x"}

\* Numerals at and beyond the largest long, up to the largest unsigned long (the
\* type of DeviceSettings::checkInterval).
LongNumerals ==
  { <<"2","1","4","7","4","8","3","6","4","7">>,
    <<"2","1","4","7","4","8","3","6","4","8">>,
    <<"3","0","0","0","0","0","0","0","0","0">>,
    <<"4","2","9","4","9","6","7","2","9","5">> }

\* What follows the "checkInterval": literal in the texts decoded.
NumberTexts == UNION {[1..n -> NumberChars] : n \in 0..MaxDigits} \cup LongNumerals

\* "\"checkInterval\":"
IntervalKey == <<QUOTE>> \o K_checkInterval \o <<QUOTE, ":">>

\* Texts handed to fromJson: the number texts behind the key, at the end of the
\* text or before a closing brace, and texts without the key.
DecodeTexts ==
  { <<"{">> \o IntervalKey \o n \o tail : n \in NumberTexts, tail \in {<<>>, <<"}">>} }
  \cup { <<"{">> \o Tail(IntervalKey) \o n : n \in NumberTexts }
  \cup {<<>>, Garbage, WrongKeys}

InitDecode ==
  /\ settings = Defaults
  /\ initialized = FALSE
  /\ fs = NoFile
  /\ op = "text"
  /\ arg \in {TextArg(t) : t \in DecodeTexts}
  /\ ret = TRUE
  /\ out = <<>>
  /\ io = NoIo
  /\ old = Snapshot
  /\ steps = 0

\* fromJson of the text drawn.
DecodeText ==
  /\ op = "text"
  /\ Called("fromJson", arg)
  /\ settings' = fromJson(arg.text)
  /\ ret' = TRUE
  /\ UNCHANGED <<initialized, fs, out, io, steps>>

NextDecode == DecodeText

SpecDecode == InitDecode /\ [][NextDecode]_vars

\* ------------------------------------------------- an interrupted save

\* A record with every escapable character in a text field, the largest interval
\* a long carries and a full endpoint list.
FullRecord ==
  [LabRecord EXCEPT !.locationName = <<BSLASH, QUOTE, NL>>,
                    !.devPass = <<CR, TAB, "]">>,
                    !.checkInterval = LONG_MAX,
                    !.endpoints = [Numbered(MAX_ENDPOINTS) EXCEPT
                                     ![1] = <<BSLASH>>, ![3] = <<"e", "]">>]]

\* Records in memory when saveSettings() is called.
CrashRecords == {Defaults, LabRecord, FullRecord}

\* A device that has run begin() on a fresh store and had its record set since.
InitCrash ==
  /\ settings \in CrashRecords
  /\ initialized = TRUE
  /\ fs = FileWith(toJson(Defaults))
  /\ op = "record"
  /\ arg = NoArg
  /\ ret = TRUE
  /\ out = <<>>
  /\ io = NoIo
  /\ old = Snapshot
  /\ steps = 0

\* saveSettings() has opened CONFIG_FILE for writing and power fails k characters
\* into file.print(toJson()): the file keeps those k characters, and the restarted
\* program constructs its manager anew (setDefaults(), initialized = false).
PowerLoss ==
  \E k \in 0..Len(toJson(settings)) :
    /\ op = "record"
    /\ Called("powerLoss", NumArg(k))
    /\ fs' = FileWith(SubSeq(toJson(settings), 1, k))
    /\ settings' = Defaults
    /\ initialized' = FALSE
    /\ out' = toJson(settings)
    /\ ret' = FALSE
    /\ io' = [NoIo EXCEPT !.wr = "ok"]
    /\ UNCHANGED steps

\* The begin() of the restarted program.
BeginAfterPowerLoss == op = "powerLoss" /\ Begin

NextCrash ==
  \/ PowerLoss
  \/ BeginAfterPowerLoss

SpecCrash == InitCrash /\ [][NextCrash]_vars

\* ------------------------------------------------------------------ claims

Unset == <<"u", "n", "s", "e", "t">>

\* C1: fromJson(toJson(r)) reproduces every field of r, except that an empty
\* locationName comes back as "unset".
C1_RoundTrip ==
  op = "fromJson" =>
    settings = [old.settings EXCEPT
                  !.locationName = IF @ = <<>> THEN Unset ELSE @]

\* begin() got past the mount.
Mounted == op = "begin" /\ io.mount \in {"ok", "formatted"}

\* C2: begin() on a mounting backend without config file whose open-for-write
\* succeeds leaves the config file in place, holding toJson() of the defaults.
C2_FreshBootWritesDefaults ==
  (Mounted /\ io.firstBoot /\ io.wr = "ok") =>
    (fs.exists /\ fs.content = toJson(Defaults))

\* A fresh device booted with a record the caller had already changed.
C2_Witness ==
  /\ Mounted /\ io.firstBoot /\ io.wr = "ok"
  /\ ~old.fs.exists
  /\ old.settings # Defaults
  /\ fs.exists

\* C3 as stated: after a failed bootstrap save begin() still attempts the load and
\* ends with the initialized flag set.
C3_ProceedsToLoad ==
  (Mounted /\ io.firstBoot /\ io.wr = "fail") =>
    (io.rd # "none" /\ initialized)

\* C3 amended: after a failed bootstrap save begin() returns false at once: the
\* load is not attempted, the initialized flag is left as it was, and the record
\* holds the built-in defaults.
C3_BootstrapFailureAborts ==
  (Mounted /\ io.firstBoot /\ io.wr = "fail") =>
    /\ ret = FALSE
    /\ io.rd = "none"
    /\ initialized = old.initialized
    /\ settings = Defaults

\* A first boot whose save failed, on a manager that was not initialized.
C3_Witness ==
  /\ Mounted /\ io.firstBoot /\ io.wr = "fail"
  /\ ~old.initialized
  /\ old.settings # Defaults

\* C4: when the mount succeeds and the config file cannot be opened for reading,
\* begin() returns true, sets the initialized flag and leaves the defaults in the
\* record, whatever it held before.
C4_LoadFailureFallsBack ==
  (Mounted /\ io.rd = "fail") =>
    (ret = TRUE /\ initialized /\ settings = Defaults)

\* An existing file that could not be read, with a changed record beforehand.
C4_Witness ==
  /\ Mounted /\ io.rd = "fail"
  /\ old.fs.exists /\ ~io.firstBoot
  /\ old.settings # Defaults
  /\ ~old.initialized

\* C5: begin() on a mounting backend whose config file exists and is readable
\* leaves in the record what fromJson gives for the file's text, field by field,
\* whatever the record held before, and leaves the file as it was.
C5_BeginLoadsStoredBlob ==
  (Mounted /\ ~io.firstBoot /\ io.rd = "ok") =>
    LET b == old.fs.content
        name == extractString(b, K_locationName)
        interval == extractNumber(b, K_checkInterval)
    IN /\ ret = TRUE
       /\ settings.locationName = (IF name = <<>> THEN Unset ELSE name)
       /\ settings.networkName = extractString(b, K_networkName)
       /\ settings.mainSSID = extractString(b, K_mainSSID)
       /\ settings.mainPass = extractString(b, K_mainPass)
       /\ settings.altSSID = extractString(b, K_altSSID)
       /\ settings.altPass = extractString(b, K_altPass)
       /\ settings.devSSID = extractString(b, K_devSSID)
       /\ settings.devPass = extractString(b, K_devPass)
       /\ settings.checkInterval = (IF interval > 0 THEN interval ELSE DEFAULT_INTERVAL)
       /\ settings.endpoints = parseEndpoints(b)
       /\ fs = old.fs

\* The file holds what saveSettings wrote for LabRecord, the record held
\* something else, and begin() brought LabRecord back.
C5_Witness ==
  /\ Mounted /\ ~io.firstBoot /\ io.rd = "ok"
  /\ old.fs.content = toJson(LabRecord)
  /\ old.settings # Defaults
  /\ old.settings # LabRecord
  /\ settings = LabRecord

Setters ==
  {"setLocationName", "setNetworkName", "setMainSSID", "setMainPass",
   "setAltSSID", "setAltPass", "setDevSSID", "setDevPass", "setCheckInterval"}

EndpointOps == {"addEndpoint", "removeEndpoint", "clearEndpoints"}

\* C6: a setter or an endpoint operation leaves the config file's existence and
\* content as they were; the file changes only in saveSettings, in
\* resetToDefaults, or in a begin() that found no config file.
C6_MutatorsNeverPersist ==
  /\ op \in Setters \cup EndpointOps => fs = old.fs
  /\ fs # old.fs =>
       \/ op \in {"saveSettings", "resetToDefaults"}
       \/ op = "begin" /\ io.firstBoot

\* A setter changed the record while the file kept a text that is not the
\* record's encoding.
C6_Witness ==
  /\ op \in Setters
  /\ settings # old.settings
  /\ fs.exists
  /\ fs.content = toJson(old.settings)
  /\ fs.content # toJson(settings)

\* C7: a rejected addEndpoint (list at MAX_ENDPOINTS) or removeEndpoint (index
\* outside the list) returns false and changes nothing; an accepted addEndpoint
\* appends at the end; an accepted removeEndpoint(i) removes element i alone.
C7_EndpointOperations ==
  LET before == old.settings.endpoints
      after == settings.endpoints
      others == [settings EXCEPT !.endpoints = before] = old.settings
      i == arg.num
  IN /\ op = "addEndpoint" =>
          IF Len(before) >= MAX_ENDPOINTS
          THEN ret = FALSE /\ settings = old.settings
          ELSE /\ ret = TRUE
               /\ others
               /\ Len(after) = Len(before) + 1
               /\ \A j \in 1..Len(before) : after[j] = before[j]
               /\ after[Len(after)] = arg.text
     /\ op = "removeEndpoint" =>
          IF i < 0 \/ i >= Len(before)
          THEN ret = FALSE /\ settings = old.settings
          ELSE /\ ret = TRUE
               /\ others
               /\ Len(after) = Len(before) - 1
               /\ \A j \in 1..Len(after) :
                    after[j] = IF j <= i THEN before[j] ELSE before[j + 1]

\* addEndpoint was refused on a list of MAX_ENDPOINTS elements.
C7_Witness ==
  /\ op = "addEndpoint"
  /\ ret = FALSE
  /\ Len(old.settings.endpoints) = MAX_ENDPOINTS
  /\ settings.endpoints = old.settings.endpoints

\* C8: the endpoint list never holds more than MAX_ENDPOINTS elements.
C8_EndpointBound == Len(settings.endpoints) <= MAX_ENDPOINTS

\* loadSettings read a file listing seven endpoints and kept MAX_ENDPOINTS.
C8_Witness ==
  /\ op = "loadSettings"
  /\ ret = TRUE
  /\ old.fs.content = SevenBlob
  /\ Len(settings.endpoints) = MAX_ENDPOINTS

\* C9: decoding a blob that lists seven non-empty quoted strings yields the first
\* five of them, in order.
C9_FirstFiveOfSeven ==
  \A listed \in {SevenList, BracketList} :
    (op = "fromJson" /\ arg.text = toJson([Defaults EXCEPT !.endpoints = listed])) =>
      (ret = TRUE /\ settings.endpoints = SubSeq(listed, 1, MAX_ENDPOINTS))

\* The literals fromJson searches for.
SearchKeys ==
  {<<QUOTE>> \o k \o <<QUOTE, ":", QUOTE>> :
     k \in {K_locationName, K_networkName, K_mainSSID, K_mainPass,
            K_altSSID, K_altPass, K_devSSID, K_devPass}}
  \cup {<<QUOTE>> \o K_checkInterval \o <<QUOTE, ":">>, EndpointsKey}

HasNoKey(json) == \A k \in SearchKeys : indexOf(json, k, 0) < 0

\* C10 as stated: fromJson of a text holding no key literal leaves the built-in
\* defaults in the record.
C10_DecodesToBuiltInDefaults ==
  (op = "fromJson" /\ HasNoKey(arg.text)) =>
    (ret = TRUE /\ settings = Defaults)

\* What fromJson leaves when it finds nothing.
DecodeFallback ==
  [ locationName |-> Unset, networkName |-> <<>>,
    mainSSID |-> <<>>, mainPass |-> <<>>, altSSID |-> <<>>, altPass |-> <<>>,
    devSSID |-> <<>>, devPass |-> <<>>,
    checkInterval |-> DEFAULT_INTERVAL, endpoints |-> <<>> ]

\* C10 amended: fromJson of a text holding no key literal returns true and leaves
\* locationName "unset", checkInterval 600000, no endpoint, and the seven other
\* text fields empty (not the built-in default SSIDs and passwords).
C10_DecodesToFallback ==
  (op = "fromJson" /\ HasNoKey(arg.text)) =>
    (ret = TRUE /\ settings = DecodeFallback)

\* fromJson was given a non-empty text without key literal, on a record that held
\* the built-in SSID.
C10_Witness ==
  /\ op = "fromJson"
  /\ arg.text = WrongKeys
  /\ HasNoKey(arg.text)
  /\ old.settings.mainSSID = Defaults.mainSSID
  /\ settings.mainSSID = <<>>

\* The digits standing at the front of t.
LeadingDigits(t) ==
  LET stops == { i \in 1..Len(t) : ~isdigit(t[i]) }
  IN IF stops = {} THEN t ELSE SubSeq(t, 1, Least(stops) - 1)

\* A numeral without its leading zeros (empty for zero).
Significant(d) ==
  LET nonzero == { i \in 1..Len(d) : d[i] # "0" }
  IN IF nonzero = {} THEN <<>> ELSE SubSeq(d, Least(nonzero), Len(d))

\* The decimal text of the checkInterval the claim expects of a text: 600000
\* without the key literal, after a minus sign, without digits or for zero; else
\* the integer written after the first key literal.
ExpectedInterval(json) ==
  LET found == indexOf(json, IntervalKey, 0)
      after == SubSeq(json, found + Len(IntervalKey) + 1, Len(json))
      n == Significant(LeadingDigits(after))
  IN IF found < 0 \/ n = <<>> THEN StringOf(DEFAULT_INTERVAL) ELSE n

\* C11: fromJson of a text without the "checkInterval": literal, or whose first
\* such literal is followed by 0, a negative integer or no digit, sets
\* checkInterval to 600000; a positive integer n after the literal sets it to n.
C11_IntervalSubstitution ==
  op = "fromJson" => StringOf(settings.checkInterval) = ExpectedInterval(arg.text)

\* C12: a second toJson / fromJson round leaves the record the first round
\* produced: fromJson(toJson(fromJson(toJson(r)))) = fromJson(toJson(r)).
C12_SecondRoundIdempotent ==
  (op = "fromJson" /\ steps >= 2) => settings = old.settings

\* The record invariant of the field table: a name and a positive interval.
Populated(r) == Len(r.locationName) > 0 /\ r.checkInterval > 0

\* C13 as stated: in every reachable state the record has a non-empty
\* locationName and a checkInterval greater than 0.
C13_RecordInvariant == Populated(settings)

\* The operation performed last stored an empty name or a zero interval.
StoredUnvalidated ==
  \/ op = "setLocationName" /\ arg.text = <<>>
  \/ op = "setCheckInterval" /\ arg.num <= 0

\* The operation performed last rebuilt the whole record.
Rebuilt ==
  \/ op \in {"construct", "resetToDefaults", "fromJson"}
  \/ op = "loadSettings" /\ ret = TRUE
  \/ Mounted

\* C13 amended: the record has a non-empty locationName and a positive
\* checkInterval after construction; it loses that only when setLocationName
\* stores the empty string or setCheckInterval stores 0, stays without it through
\* the operations that do not rebuild the record, and has it again after
\* resetToDefaults, fromJson, a loadSettings that returned true and a begin()
\* that got past the mount.
C13_OnlySettersBreakIt ==
  Populated(settings) \/ StoredUnvalidated \/ (~Populated(old.settings) /\ ~Rebuilt)

\* fromJson has put a name and a positive interval back into a record a setter
\* had left without one.
C13_Witness ==
  /\ op = "fromJson"
  /\ ~Populated(old.settings)
  /\ Populated(settings)

\* text is the front part, of any length, of the blob of a record being saved.
TruncatedBlob(text) ==
  \E r \in CrashRecords :
    /\ Len(text) <= Len(toJson(r))
    /\ text = SubSeq(toJson(r), 1, Len(text))

\* C14: when an interrupted saveSettings has left the config file holding a prefix
\* of the blob toJson() produced, the next begin() on a backend that mounts (the
\* store as it was left, the file in place) returns true with initialized set,
\* and the record has a non-empty locationName, a positive checkInterval and at
\* most MAX_ENDPOINTS endpoints, none of them empty.
C14_BeginAfterInterruptedSave ==
  (op = "begin" /\ io.mount = "ok" /\ old.fs.exists /\ TruncatedBlob(old.fs.content)) =>
    /\ ret = TRUE
    /\ initialized = TRUE
    /\ Populated(settings)
    /\ Len(settings.endpoints) <= MAX_ENDPOINTS
    /\ \A i \in 1..Len(settings.endpoints) : Len(settings.endpoints[i]) > 0

\* begin() has loaded a file cut inside the endpoint array of FullRecord's blob:
\* some of its endpoints were written, and none was decoded.
C14_Witness ==
  /\ op = "begin"
  /\ io.mount = "ok"
  /\ io.rd = "ok"
  /\ old.fs.exists
  /\ TruncatedBlob(old.fs.content)
  /\ indexOf(old.fs.content, EndpointsKey \o <<QUOTE, BSLASH, BSLASH, QUOTE, ",">>, 0) >= 0
  /\ old.fs.content # toJson(FullRecord)
  /\ ret = TRUE
  /\ settings.locationName = FullRecord.locationName
  /\ settings.endpoints = <<>>

====
